---- MODULE Spec2Model ----
(***************************************************************************)
(* A model of the natural-language-to-SQL assistant:                       *)
(*   - BaseAgent.process_user_query / validate_sql / update_context /      *)
(*     get_context / clear_context        (src/agents/base_agent.py)       *)
(*   - GraphGeneratingAgent.generate_graph                                 *)
(*                                 (src/agents/graph_generation_agent.py)  *)
(*   - QueryExecutionAgent           (src/agents/query_execution_agent.py) *)
(*   - the endpoints of src/api/main.py: /api/connection, /api/query and   *)
(*     /api/context/{id}, served one at a time and on worker threads       *)
(* Texts are sequences of one-character strings, so that the regular       *)
(* expressions of the source are matched character by character.           *)
(***************************************************************************)
EXTENDS Integers, Sequences, FiniteSets, TLC

VARIABLES
    model_text,            \* choices[0].message.content of the completion endpoint
    question,              \* the query argument of process_user_query
    conv_id,               \* the conversation_id argument of process_user_query
    tr,                    \* outcome of process_user_query ("idle" before the call)
    v_in,                  \* the sql argument of validate_sql
    v_out,                 \* what validate_sql returned ("idle" before the call)
    data,                  \* the data argument of generate_graph, as a frame
    requested,             \* the requested_graph_type argument of generate_graph
    pandas2,               \* the installed pandas is >= 2.0 (not pinned by the repository)
    chart,                 \* outcome of generate_graph ("idle" before the call)
    conversation_context,  \* BaseAgent.conversation_context: id -> list of questions
    api_context,           \* main.conversation_context: id -> {queries, results}
    log,                   \* the record/clear calls made on the BaseAgent, in order
    ret,                   \* what the last conversation operation returned
    ex,                    \* the QueryExecutionAgent: db_type, connection, constructed
    db_up,                 \* the database server accepts connections
    ex_out,                \* outcome of the last call on the QueryExecutionAgent
    agent_up,              \* main.query_execution_agent_instance and main.base_agent are set
    query_history,         \* main.query_history
    reqs,                  \* the requests being served, one per worker thread
    received,              \* the number of question requests received so far
    serial,                \* the host serves one request at a time
    faults                 \* the database and the completion endpoint may fail

\* the variables of the QueryExecutionAgent
executor == <<ex, db_up, ex_out>>
\* the variables of the request handlers of src/api/main.py
service == <<agent_up, query_history, reqs, received, serial, faults>>

vars == <<model_text, question, conv_id, tr, v_in, v_out, data, requested, pandas2,
          chart, conversation_context, api_context, log, ret, executor, service>>

-----------------------------------------------------------------------------
(* Bounds of the model.                                                    *)

\* texts are concatenations of at most MaxFrags fragments
MaxFrags == 4
\* the sql argument of validate_sql is a concatenation of at most MaxTokens tokens
MaxTokens == 4
\* a frame has at most MaxCols columns
MaxCols == 3
\* a frame has at most MaxRows rows
MaxRows == 2
\* at most MaxOps record/clear calls are logged
MaxOps == 4

-----------------------------------------------------------------------------
(* Characters and texts.                                                   *)

LowerCase == <<"a","b","c","d","e","f","g","h","i","j","k","l","m",
               "n","o","p","q","r","s","t","u","v","w","x","y","z">>
UpperCase == <<"A","B","C","D","E","F","G","H","I","J","K","L","M",
               "N","O","P","Q","R","S","T","U","V","W","X","Y","Z">>
Digits == {"0","1","2","3","4","5","6","7","8","9"}

\* \s of the re module
WsChars == {" ", "\t", "\n", "\r"}
IsSpace(c) == c \in WsChars

\* \w of the re module
IsWord(c) ==
    \/ \E i \in 1..26 : c = LowerCase[i] \/ c = UpperCase[i]
    \/ c \in Digits
    \/ c = "_"

\* the case folding re.IGNORECASE compares with
Upper(c) == IF \E i \in 1..26 : c = LowerCase[i]
            THEN UpperCase[CHOOSE i \in 1..26 : c = LowerCase[i]]
            ELSE c

EqChar(a, b, ci) == IF ci THEN Upper(a) = Upper(b) ELSE a = b

\* the literal pat stands in s at position i
LitAt(s, i, pat, ci) ==
    /\ i >= 1
    /\ i + Len(pat) - 1 <= Len(s)
    /\ \A k \in 1..Len(pat) : EqChar(s[i + k - 1], pat[k], ci)

KwSelect == <<"S","E","L","E","C","T">>
KwInsert == <<"I","N","S","E","R","T">>
KwFrom == <<"F","R","O","M">>
\* the backquote character, which a TLA+ string cannot hold
Bq == "bq"
Fence == <<Bq, Bq, Bq>>
FenceSql == <<Bq, Bq, Bq, "s", "q", "l">>

RECURSIVE Flatten(_)
Flatten(ss) == IF ss = <<>> THEN <<>> ELSE Head(ss) \o Flatten(Tail(ss))

\* every concatenation of at most n fragments of F
Texts(F, n) == { Flatten(fs) : fs \in UNION { [1..k -> F] : k \in 0..n } }

\* str.strip()
RECURSIVE LStrip(_)
LStrip(s) == IF s # <<>> /\ IsSpace(Head(s)) THEN LStrip(Tail(s)) ELSE s
RECURSIVE RStrip(_)
RStrip(s) == IF s # <<>> /\ IsSpace(s[Len(s)])
             THEN RStrip(SubSeq(s, 1, Len(s) - 1)) ELSE s
Strip(s) == RStrip(LStrip(s))

\* re.sub of the pattern FenceSql|Fence by the empty text: leftmost, non-overlapping, first alternative first
RECURSIVE RemoveFences(_)
RemoveFences(s) ==
    IF s = <<>> THEN <<>>
    ELSE IF LitAt(s, 1, FenceSql, FALSE) THEN RemoveFences(SubSeq(s, 7, Len(s)))
    ELSE IF LitAt(s, 1, Fence, FALSE) THEN RemoveFences(SubSeq(s, 4, Len(s)))
    ELSE <<Head(s)>> \o RemoveFences(Tail(s))

\* the first position after a run \s+ that starts at i (0 when s[i] is no whitespace);
\* the run is taken whole: what follows it in the patterns below is never whitespace
RECURSIVE AfterSpaces(_, _)
AfterSpaces(s, i) ==
    IF i <= Len(s) /\ IsSpace(s[i])
    THEN IF i + 1 <= Len(s) /\ IsSpace(s[i + 1]) THEN AfterSpaces(s, i + 1) ELSE i + 1
    ELSE 0

\* FROM\s+\w+ matches at position p: the position after FROM\s+\w (0 when it does not)
FromRefAt(s, p, ci) ==
    IF LitAt(s, p, KwFrom, ci)
    THEN LET q == AfterSpaces(s, p + 4)
         IN  IF q # 0 /\ q <= Len(s) /\ IsWord(s[q]) THEN q + 1 ELSE 0
    ELSE 0

Min(S) == CHOOSE x \in S : \A y \in S : x <= y

\* the positions at which SELECT\s+.*?FROM\s+\w+.*?; can start
SqlStarts(s) ==
    { i \in 1..Len(s) :
        /\ LitAt(s, i, KwSelect, FALSE)
        /\ AfterSpaces(s, i + 6) # 0
        /\ \E p \in AfterSpaces(s, i + 6)..Len(s) :
              /\ FromRefAt(s, p, FALSE) # 0
              /\ \E z \in FromRefAt(s, p, FALSE)..Len(s) : s[z] = ";" }

\* the pattern with a greedy tail, SELECT\s+.*?FROM\s+\w+.*; : up to the last semicolon
SqlMatchGreedy(s) ==
    IF SqlStarts(s) = {} THEN <<>>
    ELSE LET i == Min(SqlStarts(s))
             e == CHOOSE z \in i..Len(s) :
                     s[z] = ";" /\ \A y \in (z + 1)..Len(s) : s[y] # ";"
         IN  SubSeq(s, i, e)

\* re.search(r"(SELECT\s+.*?FROM\s+\w+.*?;)", s, re.DOTALL).group(1), <<>> for None:
\* the leftmost start, then the first FROM\s+\w+ a semicolon follows, then the
\* first semicolon after it (both .*? are lazy and, under DOTALL, cross newlines)
SqlMatch(s) ==
    IF SqlStarts(s) = {} THEN <<>>
    ELSE LET i == Min(SqlStarts(s))
             a == AfterSpaces(s, i + 6)
             p == Min({ x \in a..Len(s) :
                         /\ FromRefAt(s, x, FALSE) # 0
                         /\ \E z \in FromRefAt(s, x, FALSE)..Len(s) : s[z] = ";" })
             e == Min({ z \in FromRefAt(s, p, FALSE)..Len(s) : s[z] = ";" })
         IN  SubSeq(s, i, e)

\* re.search(r"FROM\s+\w+", sql, re.IGNORECASE) is not None
HasFromRef(sql) == \E p \in 1..Len(sql) : FromRefAt(sql, p, TRUE) # 0

-----------------------------------------------------------------------------
(* BaseAgent.process_user_query and BaseAgent.validate_sql.                *)

\* the status code of a successful completion request
HttpOk == 200
HttpStatuses == {200, 500}

Ids == {"c1", "c2"}
Questions == {"q1", "q2"}

\* the fragments the model's text is built from
Frags == { KwSelect \o <<" ">>,
           <<"s","e","l","e","c","t"," ">>,
           KwFrom \o <<" ","t">>,
           <<"f","r","o","m"," ","t">>,
           KwFrom \o <<" ">>,
           <<";">>,
           Fence,
           FenceSql,
           <<"\n">>,
           <<"x">> }

\* the tokens the argument of validate_sql is built from
Tokens == { KwSelect,
            <<"s","e","l","e","c","t">>,
            <<"I","n","s","e","r","t">>,
            <<" ">>,
            <<"\t">>,
            <<"\n">>,
            <<"x">> }

Idle == [st |-> "idle", sql |-> <<>>, err |-> ""]
Returned(sql) == [st |-> "ok", sql |-> sql, err |-> ""]
\* every exception is re-raised as ValueError("Error processing query: ...")
Raised(e) == [st |-> "error", sql |-> <<>>, err |-> e]

\* lines 74-95 with the check of line 84 reduced to "not sql_cleaned"
ExtractSqlUnchecked(text) ==
    LET full_response == Strip(text)
        sql_cleaned == Strip(RemoveFences(full_response))
        sql_match == SqlMatch(sql_cleaned)
    IN  IF sql_cleaned = <<>>
        THEN Raised("Groq API returned an invalid response. No complete SQL detected.")
        ELSE LET sql == IF sql_match # <<>> THEN Strip(sql_match) ELSE sql_cleaned
             IN  IF ~HasFromRef(sql)
                 THEN Raised("Generated SQL is incomplete. Missing table reference after FROM clause.")
                 ELSE Returned(sql)

\* lines 74-95: from the model's text to the returned statement
ExtractSql(text) ==
    LET full_response == Strip(text)
        sql_cleaned == Strip(RemoveFences(full_response))
        sql_match == SqlMatch(sql_cleaned)
    IN  IF sql_cleaned = <<>> \/ sql_match = <<>>
        THEN Raised("Groq API returned an invalid response. No complete SQL detected.")
        ELSE LET sql == IF sql_match # <<>> THEN Strip(sql_match) ELSE sql_cleaned
             IN  IF ~HasFromRef(sql)
                 THEN Raised("Generated SQL is incomplete. Missing table reference after FROM clause.")
                 ELSE Returned(sql)

\* lines 32-36, also update_context: the list of id, created when absent, plus q
Appended(ctx, id, q) ==
    IF id \in DOMAIN ctx
    THEN [ctx EXCEPT ![id] = Append(@, q)]
    ELSE [x \in DOMAIN ctx \cup {id} |-> IF x = id THEN <<q>> ELSE ctx[x]]

\* process_user_query recording the question only when a statement is returned
process_user_query_records_on_return(ctx, q, id, schema_ok, status, extracted) ==
    IF ~schema_ok THEN [ctx |-> ctx, tr |-> Raised("Error fetching schema")]
    ELSE IF status # HttpOk THEN [ctx |-> ctx, tr |-> Raised("Groq API Error")]
    ELSE [ctx |-> IF extracted.st = "ok" THEN Appended(ctx, id, q) ELSE ctx,
          tr |-> extracted]

\* process_user_query leaving out a question that is already the last one recorded
process_user_query_records_new(ctx, q, id, schema_ok, status, extracted) ==
    IF ~schema_ok THEN [ctx |-> ctx, tr |-> Raised("Error fetching schema")]
    ELSE [ctx |-> IF id \in DOMAIN ctx /\ ctx[id] # <<>> /\ ctx[id][Len(ctx[id])] = q
                  THEN ctx ELSE Appended(ctx, id, q),
          tr |-> IF status # HttpOk THEN Raised("Groq API Error") ELSE extracted]

\* process_user_query(query, conversation_id) on the history ctx; schema_ok:
\* get_schema_description returned (line 28, before the question is recorded),
\* status: the status code of the completion endpoint's response, extracted:
\* what lines 74-95 make of its content
process_user_query(ctx, q, id, schema_ok, status, extracted) ==
    IF ~schema_ok THEN [ctx |-> ctx, tr |-> Raised("Error fetching schema")]
    ELSE [ctx |-> Appended(ctx, id, q),
          tr |-> IF status # HttpOk THEN Raised("Groq API Error") ELSE extracted]

\* a call process_user_query(q, id)
ProcessUserQuery(q, id, schema_ok, status) ==
    /\ tr.st = "idle"
    /\ question' = q
    /\ conv_id' = id
    /\ \E r \in {process_user_query(conversation_context, q, id, schema_ok, status,
                                      ExtractSql(model_text))} :
          /\ conversation_context' = r.ctx
          /\ tr' = r.tr
    /\ UNCHANGED <<model_text, v_in, v_out, data, requested, pandas2, chart,
                   api_context, log, ret>>
    /\ UNCHANGED <<executor, service>>

\* (SELECT|INSERT)\s+ under re.IGNORECASE, case-sensitive instead
validate_sql_case_sensitive(sql) ==
    \E p \in 1..Len(sql) :
        /\ LitAt(sql, p, KwSelect, FALSE) \/ LitAt(sql, p, KwInsert, FALSE)
        /\ AfterSpaces(sql, p + 6) # 0

\* bool(re.search(r"(SELECT|INSERT)\s+", sql, re.IGNORECASE))
validate_sql(sql) ==
    \E p \in 1..Len(sql) :
        /\ LitAt(sql, p, KwSelect, TRUE) \/ LitAt(sql, p, KwInsert, TRUE)
        /\ AfterSpaces(sql, p + 6) # 0

NotCalled == [called |-> FALSE, value |-> FALSE]

\* a call validate_sql(v_in)
ValidateSql ==
    /\ ~v_out.called
    /\ v_out' = [called |-> TRUE, value |-> validate_sql(v_in)]
    /\ UNCHANGED <<model_text, question, conv_id, tr, v_in, data, requested, pandas2,
                   chart, conversation_context, api_context, log, ret>>
    /\ UNCHANGED <<executor, service>>

EmptyMap == [x \in {} |-> <<>>]
NoFrame == [nrows |-> 0, cols |-> <<>>]
NoChart == [st |-> "idle", kind |-> "", resolved |-> "", title |-> "", fields |-> <<>>,
            err |-> ""]
NoRet == [op |-> "none", id |-> "", ok |-> TRUE, value |-> <<>>]

\* what the variables of a component hold while another component runs
RestTranslate ==
    /\ question = "" /\ conv_id = "" /\ tr = Idle
    /\ model_text = <<>>
RestValidate == v_in = <<>> /\ v_out = NotCalled
RestChart ==
    /\ data = NoFrame /\ requested = [given |-> FALSE, kind |-> ""] /\ pandas2 = TRUE /\ chart = NoChart
RestConversation ==
    /\ api_context = EmptyMap /\ log = <<>> /\ ret = NoRet
NoAgent == [db_type |-> "", connection |-> "none", built |-> FALSE]
NoOutcome == [op |-> "none", st |-> "ok", kind |-> "", sql |-> <<>>, sent |-> <<>>,
              dead |-> FALSE]
RestExecutor ==
    /\ ex = NoAgent /\ db_up = TRUE /\ ex_out = NoOutcome
RestService ==
    /\ agent_up = FALSE /\ query_history = <<>> /\ reqs = <<>> /\ received = 0
    /\ serial = TRUE /\ faults = FALSE

InitTranslate ==
    /\ model_text \in Texts(Frags, MaxFrags)
    /\ question = "" /\ conv_id = "" /\ tr = Idle
    /\ conversation_context = EmptyMap
    /\ RestValidate /\ RestChart /\ RestConversation /\ RestExecutor /\ RestService

NextTranslate ==
    \E q \in Questions, id \in Ids, schema_ok \in BOOLEAN, status \in HttpStatuses :
        ProcessUserQuery(q, id, schema_ok, status)

SpecTranslate == InitTranslate /\ [][NextTranslate]_vars

InitValidate ==
    /\ v_in \in Texts(Tokens, MaxTokens)
    /\ v_out = NotCalled
    /\ conversation_context = EmptyMap
    /\ RestTranslate /\ RestChart /\ RestConversation /\ RestExecutor /\ RestService

NextValidate == ValidateSql

SpecValidate == InitValidate /\ [][NextValidate]_vars

-----------------------------------------------------------------------------
(* Properties of process_user_query and validate_sql.                      *)

ContainsCI(s, pat) == \E i \in 1..Len(s) : LitAt(s, i, pat, TRUE)
Contains(s, pat) == \E i \in 1..Len(s) : LitAt(s, i, pat, FALSE)

\* C1: process_user_query either raises or returns a text that holds, in any
\* letter case, SELECT and FROM followed by whitespace and an identifier.
C1_ReturnedSqlHasShape ==
    tr.st = "ok" =>
        /\ ContainsCI(tr.sql, KwSelect)
        /\ \E p \in 1..Len(tr.sql), w \in WsChars :
              /\ LitAt(tr.sql, p, KwFrom \o <<w>>, TRUE)
              /\ \E q \in (p + 5)..Len(tr.sql) :
                    /\ IsWord(tr.sql[q])
                    /\ \A k \in (p + 5)..(q - 1) : IsSpace(tr.sql[k])

\* C1 witness: a statement was returned from a text that carried more than the
\* statement (fences or surrounding text were dropped).
C1_Witness ==
    /\ tr.st = "ok"
    /\ tr.sql # model_text
    /\ Contains(model_text, Fence)

\* C2 as stated: validate_sql is true exactly for the texts that hold SELECT or
\* INSERT, in any letter case, followed by a space character.
C2_TrueIffKeywordThenSpace ==
    v_out.called =>
        (v_out.value <=> \/ ContainsCI(v_in, KwSelect \o <<" ">>)
                         \/ ContainsCI(v_in, KwInsert \o <<" ">>))

\* C2 as amended: validate_sql is true exactly for the texts that hold SELECT or
\* INSERT, in any letter case, followed by a whitespace character (a space, a
\* tab, a line break).
C2_TrueIffKeywordThenWhitespace ==
    v_out.called =>
        (v_out.value <=> \E w \in WsChars :
                            \/ ContainsCI(v_in, KwSelect \o <<w>>)
                            \/ ContainsCI(v_in, KwInsert \o <<w>>))

\* C2 witness: a text accepted for a lower-case keyword followed by a tab, with
\* no keyword followed by a space in it.
C2_Witness ==
    /\ v_out.called /\ v_out.value
    /\ Contains(v_in, <<"s","e","l","e","c","t","\t">>)
    /\ ~ContainsCI(v_in, KwSelect \o <<" ">>)
    /\ ~ContainsCI(v_in, KwInsert \o <<" ">>)


\* C19: every statement process_user_query returns is accepted by
\* validate_sql, so the gate of the question request never rejects a statement
\* and the answer "Invalid SQL generated." is never given.
C19_ReturnedStatementPassesGate ==
    tr.st = "ok" => validate_sql(tr.sql)

\* C19 witness: a statement was returned from a text that holds a lower-case
\* select as well, and the gate accepts it.
C19_Witness ==
    /\ tr.st = "ok"
    /\ validate_sql(tr.sql)
    /\ Contains(model_text, <<"s","e","l","e","c","t">>)

\* the text left of the model's content once the fences are removed (lines 75-78)
Cleaned(text) == Strip(RemoveFences(Strip(text)))

\* the spans <<i, e>> of c that read SELECT, whitespace, anything, FROM,
\* whitespace, a word character, anything, a semicolon, in upper-case keywords
Spans(c) ==
    LET starts == { i \in 1..Len(c) :
                      /\ LitAt(c, i, KwSelect, FALSE)
                      /\ i + 6 <= Len(c) /\ IsSpace(c[i + 6]) }
        froms == { p \in 1..Len(c) : LitAt(c, p, KwFrom, FALSE) }
        ends == { e \in 1..Len(c) : c[e] = ";" }
    IN  { ie \in starts \X ends :
            \E p \in froms :
                /\ ie[1] + 7 <= p
                /\ \E q \in (p + 5)..(ie[2] - 1) :
                      /\ IsWord(c[q])
                      /\ \A k \in (p + 4)..(q - 1) : IsSpace(c[k]) }

\* the first span, and of the spans that start there the shortest
FirstShortest(sp) ==
    CHOOSE ie \in sp :
        \A other \in sp :
            \/ ie[1] < other[1]
            \/ ie[1] = other[1] /\ ie[2] <= other[2]

\* the call got as far as the model's text: the schema was read and the
\* completion endpoint answered with status 200
ReachedText == tr.st # "idle" /\ tr.err \notin {"Error fetching schema", "Groq API Error"}

\* C17: with the fences removed, when the text holds a span matching the
\* case-sensitive pattern SELECT ... FROM <identifier> ... ; process_user_query
\* returns exactly the first, shortest such span, without the text around it;
\* when it holds none, process_user_query fails and returns nothing.
C17_ReturnsFirstShortestSpanOrFails ==
    ReachedText =>
        \E c \in {Cleaned(model_text)} :
            \E sp \in {Spans(c)} :
                IF sp # {}
                THEN \E ie \in {FirstShortest(sp)} : tr = Returned(SubSeq(c, ie[1], ie[2]))
                ELSE tr.st = "error"

\* C17 witness: the text holds several spans and more than the statement, and
\* the statement returned is shorter than the cleaned text.
C17_Witness ==
    /\ tr.st = "ok"
    /\ Cardinality(Spans(Cleaned(model_text))) > 1
    /\ Len(tr.sql) < Len(Cleaned(model_text))

\* C15 as stated: every call of process_user_query records the raw question
\* exactly once on the conversation's history, whether the call returns or
\* fails, a failure of the schema introspection included.
C15_RecordsQuestionUnconditionally ==
    tr.st # "idle" =>
        conversation_context = Appended(EmptyMap, conv_id, question)

\* C15 as amended: a call of process_user_query whose schema introspection
\* succeeded records the raw question exactly once, also when the call then
\* fails (status other than 200, malformed text); a call that fails at the
\* schema introspection records nothing.
C15_RecordsQuestionAfterSchema ==
    tr.st # "idle" =>
        conversation_context = IF tr.err = "Error fetching schema"
                               THEN EmptyMap
                               ELSE Appended(EmptyMap, conv_id, question)

\* C15 witness: a call failed after the schema was read, and the question is
\* on the history once.
C15_Witness ==
    /\ tr.st = "error"
    /\ tr.err # "Error fetching schema"
    /\ conv_id \in DOMAIN conversation_context
    /\ conversation_context[conv_id] = <<question>>

-----------------------------------------------------------------------------
(* GraphGeneratingAgent.generate_graph.                                    *)
(* A frame is what pd.DataFrame(data) holds as far as generate_graph reads  *)
(* it: the number of rows and, per column in order, its name and the dtype  *)
(* pandas gave it.                                                          *)

\* the kinds generate_graph has a branch for
Kinds == {"correlation", "heatmap", "box", "histogram", "time_series", "bar",
          "line", "scatter", "pie", "network", "table"}

\* requested_graph_type: None, or a string
NoneKind == [given |-> FALSE, kind |-> ""]
Kind(k) == [given |-> TRUE, kind |-> k]
RequestedKinds == {NoneKind} \cup {Kind(k) : k \in Kinds \cup {"", "PIE", "Table", "bubble"}}

\* "not requested_graph_type": None and the empty string are falsy
Falsy(r) == ~r.given \/ r.kind = ""

ColNames == {"amount", "count", "order_date", "status"}

\* the dtypes of the columns: numbers, and what np.number does not cover
Dtypes == {"int64", "float64", "object", "bool"}
IsNumeric(c) == c.dtype \in {"int64", "float64"}

\* the sequences of at most n columns with distinct names
Columns(n) ==
    { cs \in UNION { [1..k -> [name : ColNames, dtype : Dtypes]] : k \in 0..n } :
        \A i, j \in 1..Len(cs) : i # j => cs[i].name # cs[j].name }

\* pd.DataFrame(data), data a list of at most r dictionaries: no row, no column
Frames(r, n) ==
    {NoFrame} \cup { [nrows |-> k, cols |-> cs] : k \in 1..r, cs \in Columns(n) }

\* df.select_dtypes(include=[np.number]).columns.tolist()
numeric_cols(df) == SelectSeq(df.cols, IsNumeric)
\* df.select_dtypes(exclude=[np.number]).columns.tolist()
categorical_cols(df) == SelectSeq(df.cols, LAMBDA c : ~IsNumeric(c))

\* line 37 asking for one numeric column where the source asks for two
AutoDetectOneNumeric(df) ==
    IF Len(df.cols) = 1 THEN "pie"
    ELSE IF Len(df.cols) = 2
         THEN IF Len(numeric_cols(df)) = 1 /\ Len(categorical_cols(df)) = 1 THEN "bar"
              ELSE IF Len(numeric_cols(df)) = 2 THEN "scatter"
              ELSE "table"
    ELSE IF Len(numeric_cols(df)) >= 1 THEN "correlation" ELSE "table"

\* line 30 asking for a numeric column only, whatever the other column is
AutoDetectBarOnNumeric(df) ==
    IF Len(df.cols) = 1 THEN "pie"
    ELSE IF Len(df.cols) = 2
         THEN IF Len(numeric_cols(df)) >= 1 THEN "bar"
              ELSE "table"
    ELSE IF Len(numeric_cols(df)) >= 2 THEN "correlation" ELSE "table"

\* lines 27-37, taken when requested_graph_type is falsy
AutoDetect(df) ==
    IF Len(df.cols) = 1 THEN "pie"
    ELSE IF Len(df.cols) = 2
         THEN IF Len(numeric_cols(df)) = 1 /\ Len(categorical_cols(df)) = 1 THEN "bar"
              ELSE IF Len(numeric_cols(df)) = 2 THEN "scatter"
              ELSE "table"
    ELSE IF Len(numeric_cols(df)) >= 2 THEN "correlation" ELSE "table"

\* 'date' in name.lower(), for the column names of ColNames
HasDate(name) == name \in {"order_date"}

Rendered(k, title, fields) ==
    [st |-> "ok", kind |-> k, resolved |-> k, title |-> title, fields |-> fields, err |-> ""]
\* every exception is re-raised as ValueError("Graph generation failed: ...")
Failed(k, e) ==
    [st |-> "error", kind |-> "", resolved |-> k, title |-> "", fields |-> <<>>, err |-> e]

\* lines 95-99: df[col].value_counts().reset_index() and its renaming.  Since
\* pandas 2.0 value_counts names the frequencies "count" and the index after the
\* column (reset_index cannot insert a second "count"); before, the frequencies
\* carry the column's name and the index becomes "index".
PieFields(name, p2) ==
    LET counted == IF p2 THEN <<name, "count">> ELSE <<"index", name>>
    IN  IF p2 /\ name = "count" THEN <<>>
        ELSE IF \E i \in 1..2 : counted[i] = "count"
             THEN <<"category", "value">>
             ELSE <<"category", "count">>

\* lines 101-103: the frequency field count becomes value when df has a count column
PieRenamed(fields, df) ==
    IF \E i \in 1..Len(df.cols) : df.cols[i].name = "count"
    THEN [i \in 1..Len(fields) |-> IF fields[i] = "count" THEN "value" ELSE fields[i]]
    ELSE fields

\* lines 39-140: the branch of kind k on the frame df; p2: pandas is >= 2.0.
\* The heatmap of a frame with no numeric column is px.imshow of an empty
\* matrix, which the installed plotly either draws (empty_ok) or rejects.
Render(k, df, p2, empty_ok) ==
    CASE k = "correlation" ->
            IF Len(numeric_cols(df)) < 2
            THEN Failed(k, "At least two numerical columns are required for correlation matrix.")
            ELSE Rendered(k, "Correlation Matrix (Heatmap)", <<>>)
      [] k = "heatmap" ->
            IF Len(numeric_cols(df)) = 0 /\ ~empty_ok
            THEN Failed(k, "px.imshow")
            ELSE Rendered(k, "Heatmap", <<>>)
      [] k = "box" ->
            IF numeric_cols(df) = <<>>
            THEN Failed(k, "Box plot requires at least one numeric column.")
            ELSE Rendered(k, "Box Plot", <<>>)
      [] k = "histogram" ->
            IF numeric_cols(df) = <<>>
            THEN Failed(k, "Histogram requires at least one numeric column.")
            ELSE Rendered(k, "Histogram", <<>>)
      [] k = "time_series" ->
            IF ~HasDate(df.cols[1].name)
            THEN Failed(k, "Time series requires a date column.")
            ELSE IF Len(df.cols) < 2
                 THEN Failed(k, "index 1 is out of bounds")
                 ELSE Rendered(k, "Time Series Chart", <<>>)
      [] k = "bar" ->
            IF Len(numeric_cols(df)) = 1 /\ Len(categorical_cols(df)) >= 1
            THEN Rendered(k, "Bar Chart", <<>>)
            ELSE Failed(k, "Bar chart requires one numeric and one categorical column.")
      [] k = "line" ->
            IF Len(df.cols) # 2
            THEN Failed(k, "Line chart requires exactly two columns.")
            ELSE Rendered(k, "Line Chart", <<>>)
      [] k = "scatter" ->
            IF Len(df.cols) # 2
            THEN Failed(k, "Scatter plot requires exactly two columns.")
            ELSE Rendered(k, "Scatter Plot", <<>>)
      [] k = "pie" ->
            IF Len(df.cols) # 1
            THEN Failed(k, "Pie chart requires exactly one column.")
            ELSE LET counted == PieFields(df.cols[1].name, p2)
                     pie_data == PieRenamed(counted, df)
                 IN  IF counted = <<>>
                     THEN Failed(k, "cannot insert count, already exists")
                     ELSE IF \E i \in 1..2 : pie_data[i] = "value"
                          THEN Rendered(k, "Pie Chart", pie_data)
                          ELSE Failed(k, "Value of 'values' is not the name of a column in 'data_frame'")
      [] k = "network" ->
            IF Len(df.cols) # 2
            THEN Failed(k, "Network graph requires exactly two columns.")
            ELSE Rendered(k, "", <<>>)
      [] k = "table" -> Rendered(k, "Table Display", <<>>)
      [] OTHER -> Failed(k, "Unsupported graph type")

\* the table served before data and the frame are tested for emptiness
generate_graph_no_empty_check(df, req, p2, empty_ok) ==
    LET k == IF Falsy(req) THEN AutoDetect(df) ELSE req.kind
    IN  IF df.cols = <<>> /\ k # "table"
        THEN Failed("", "Dataframe is empty. Cannot generate graph.")
        ELSE Render(k, df, p2, empty_ok)

\* line 143 returning the argument as it was passed, not the resolved kind
generate_graph_tag_as_passed(df, req, p2, empty_ok) ==
    IF df.nrows = 0
    THEN Failed("", "No data provided for graph generation.")
    ELSE IF df.cols = <<>>
         THEN Failed("", "Dataframe is empty. Cannot generate graph.")
         ELSE LET k == IF Falsy(req) THEN AutoDetect(df) ELSE req.kind
                  out == Render(k, df, p2, empty_ok)
              IN  IF out.st = "ok" THEN [out EXCEPT !.kind = req.kind] ELSE out

\* the requested kind compared without regard to letter case
generate_graph_any_case(df, req, p2, empty_ok) ==
    IF df.nrows = 0
    THEN Failed("", "No data provided for graph generation.")
    ELSE IF df.cols = <<>>
         THEN Failed("", "Dataframe is empty. Cannot generate graph.")
         ELSE LET k == IF Falsy(req) THEN AutoDetect(df)
                       ELSE IF req.kind = "PIE" THEN "pie"
                       ELSE IF req.kind = "Table" THEN "table"
                       ELSE req.kind
              IN  Render(k, df, p2, empty_ok)

\* generate_graph(data, requested_graph_type), df the frame of data
generate_graph(df, req, p2, empty_ok) ==
    IF df.nrows = 0
    THEN Failed("", "No data provided for graph generation.")
    ELSE IF df.cols = <<>>
         THEN Failed("", "Dataframe is empty. Cannot generate graph.")
         ELSE LET k == IF Falsy(req) THEN AutoDetect(df) ELSE req.kind
              IN  Render(k, df, p2, empty_ok)

\* a call generate_graph(data, requested)
GenerateGraph ==
    /\ chart.st = "idle"
    /\ \E empty_ok \in BOOLEAN : chart' = generate_graph(data, requested, pandas2, empty_ok)
    /\ UNCHANGED <<model_text, question, conv_id, tr, v_in, v_out, data, requested,
                   pandas2, conversation_context, api_context, log, ret>>
    /\ UNCHANGED <<executor, service>>

InitChart ==
    /\ data \in Frames(MaxRows, MaxCols)
    /\ requested \in RequestedKinds
    /\ pandas2 \in BOOLEAN
    /\ chart = NoChart
    /\ conversation_context = EmptyMap
    /\ RestTranslate /\ RestValidate /\ RestConversation /\ RestExecutor /\ RestService

NextChart == GenerateGraph

SpecChart == InitChart /\ [][NextChart]_vars

-----------------------------------------------------------------------------
(* Properties of generate_graph.                                           *)

NumericCount(df) ==
    Cardinality({ i \in 1..Len(df.cols) : df.cols[i].dtype \in {"int64", "float64"} })
HasRows(df) == df.nrows >= 1 /\ Len(df.cols) >= 1

\* C3: with no kind requested and rows at hand, the resolved kind is pie for one
\* column; for two columns bar (one numeric, one categorical), scatter (both
\* numeric) or table; for three or more columns correlation when at least two
\* are numeric and table otherwise.
C3_AutoDetectedKind ==
    (chart.st # "idle" /\ ~requested.given /\ HasRows(data)) =>
        LET n == Len(data.cols)
            m == NumericCount(data)
        IN  /\ n = 1 => chart.resolved = "pie"
            /\ (n = 2 /\ m = 1) => chart.resolved = "bar"
            /\ (n = 2 /\ m = 2) => chart.resolved = "scatter"
            /\ (n = 2 /\ m = 0) => chart.resolved = "table"
            /\ (n >= 3 /\ m >= 2) => chart.resolved = "correlation"
            /\ (n >= 3 /\ m < 2) => chart.resolved = "table"

\* C3 witness: three columns, two of them numeric, no kind requested, resolved
\* to a correlation matrix.
C3_Witness ==
    /\ chart.st = "ok" /\ ~requested.given
    /\ Len(data.cols) = 3 /\ NumericCount(data) = 2
    /\ chart.resolved = "correlation"

TitleOf(k) ==
    CASE k = "correlation" -> "Correlation Matrix (Heatmap)"
      [] k = "heatmap" -> "Heatmap"
      [] k = "box" -> "Box Plot"
      [] k = "histogram" -> "Histogram"
      [] k = "time_series" -> "Time Series Chart"
      [] k = "bar" -> "Bar Chart"
      [] k = "line" -> "Line Chart"
      [] k = "scatter" -> "Scatter Plot"
      [] k = "pie" -> "Pie Chart"
      [] k = "network" -> ""
      [] k = "table" -> "Table Display"
      [] OTHER -> "?"

\* C4: a returned chart is tagged with the requested kind when a kind was
\* requested (a non-empty string) and with the auto-detected kind otherwise, and
\* the chart is the one the branch of that kind draws.
C4_TagIsResolvedKind ==
    chart.st = "ok" =>
        /\ chart.kind = IF Falsy(requested) THEN AutoDetect(data) ELSE requested.kind
        /\ chart.kind \in Kinds
        /\ chart.title = TitleOf(chart.kind)

\* C4 witness: a box plot requested and returned for a frame that auto-detection
\* would have drawn as a bar chart.
C4_Witness ==
    /\ chart.st = "ok"
    /\ requested = Kind("box")
    /\ AutoDetect(data) = "bar"
    /\ chart.kind = "box"

\* C5: no row, no chart, whatever kind is requested.
C5_EmptyRowsFail == data.nrows = 0 => chart.st # "ok"

\* C5 witness: a table requested for no row, refused.
C5_Witness ==
    /\ data.nrows = 0 /\ requested = Kind("table")
    /\ chart.st = "error" /\ chart.err = "No data provided for graph generation."

\* C6 as stated: a pie over one column tabulates into (category, count) and is
\* rendered, and into (category, value) when the column is named count.
C6_PieFields ==
    (chart.st # "idle" /\ chart.resolved = "pie" /\ Len(data.cols) = 1) =>
        /\ chart.st = "ok"
        /\ chart.fields = IF data.cols[1].name = "count"
                          THEN <<"category", "value">>
                          ELSE <<"category", "count">>

\* C7 as stated: correlation and heatmap on fewer than two numeric columns fail,
\* citing that at least two numerical columns are required.
C7_CorrelationNeedsTwoNumeric ==
    (chart.st # "idle" /\ chart.resolved \in {"correlation", "heatmap"}
        /\ NumericCount(data) < 2) =>
        /\ chart.st = "error"
        /\ chart.err = "At least two numerical columns are required for correlation matrix."

\* C8 as stated: every requested kind outside the recognized ones fails on rows
\* at hand, the empty string included.
C8_UnrecognizedKindFails ==
    (chart.st # "idle" /\ requested.given /\ requested.kind \notin Kinds
        /\ HasRows(data)) => chart.st = "error"

\* C8 as amended: every requested kind that is a non-empty string outside the
\* recognized ones fails on rows at hand as unsupported, whatever its letter
\* case; the empty string counts as no request and is resolved by auto-detection.
C8_UnrecognizedNonEmptyKindFails ==
    (chart.st # "idle" /\ requested.given /\ requested.kind \notin Kinds
        /\ HasRows(data)) =>
        IF requested.kind = ""
        THEN chart.resolved = AutoDetect(data)
        ELSE chart.st = "error" /\ chart.err = "Unsupported graph type"

\* C8 witness: PIE, requested in capitals for a single column, is refused.
C8_Witness ==
    /\ requested = Kind("PIE") /\ Len(data.cols) = 1 /\ data.nrows >= 1
    /\ chart.st = "error" /\ chart.err = "Unsupported graph type"

\* the messages of the per-kind precondition checks
PreconditionErrors ==
    { "At least two numerical columns are required for correlation matrix.",
      "Box plot requires at least one numeric column.",
      "Histogram requires at least one numeric column.",
      "Time series requires a date column.",
      "Bar chart requires one numeric and one categorical column.",
      "Line chart requires exactly two columns.",
      "Scatter plot requires exactly two columns.",
      "Pie chart requires exactly one column.",
      "Network graph requires exactly two columns." }

\* what the branch of an auto-detectable kind asks of the frame
Precondition(k, df) ==
    CASE k = "pie" -> Len(df.cols) = 1
      [] k = "bar" -> NumericCount(df) = 1 /\ Len(df.cols) - NumericCount(df) >= 1
      [] k = "scatter" -> Len(df.cols) = 2
      [] k = "correlation" -> NumericCount(df) >= 2
      [] k = "table" -> TRUE
      [] OTHER -> FALSE

\* C18: when no kind is requested and there are rows with at least one column,
\* the auto-detected kind satisfies its own precondition, so the call never
\* fails a per-kind precondition check.
C18_AutoDetectedKindMeetsPrecondition ==
    (chart.st # "idle" /\ Falsy(requested) /\ HasRows(data)) =>
        /\ Precondition(chart.resolved, data)
        /\ chart.err \notin PreconditionErrors

\* C18 witness: two columns, one of them numeric, no kind requested: the bar
\* chart was picked and drawn.
C18_Witness ==
    /\ chart.st = "ok" /\ Falsy(requested) /\ HasRows(data)
    /\ chart.resolved = "bar"
    /\ Len(data.cols) = 2

-----------------------------------------------------------------------------
(* Conversation state: BaseAgent.update_context / get_context /            *)
(* clear_context, and the context endpoints of the API.                    *)

\* a map without the key id
Without(ctx, id) == [x \in DOMAIN ctx \ {id} |-> ctx[x]]

\* update_context replacing the list instead of appending to it
update_context_overwrite(ctx, id, q) ==
    [x \in DOMAIN ctx \cup {id} |-> IF x = id THEN <<q>> ELSE ctx[x]]

\* update_context(conversation_id, query)
update_context(ctx, id, q) == Appended(ctx, id, q)

\* get_context(conversation_id): self.conversation_context.get(conversation_id, [])
get_context(ctx, id) == IF id \in DOMAIN ctx THEN ctx[id] ELSE <<>>

\* clear_context(conversation_id)
clear_context(ctx, id) == IF id \in DOMAIN ctx THEN Without(ctx, id) ELSE ctx

Ret(op, id, ok, value) == [op |-> op, id |-> id, ok |-> ok, value |-> value]

UpdateContext(id, q) ==
    /\ Len(log) < MaxOps
    /\ conversation_context' = update_context(conversation_context, id, q)
    /\ log' = Append(log, [op |-> "record", id |-> id, q |-> q])
    /\ ret' = Ret("record", id, TRUE, <<>>)
    /\ UNCHANGED <<model_text, question, conv_id, tr, v_in, v_out, data, requested,
                   pandas2, chart, api_context>>
    /\ UNCHANGED <<executor, service>>

GetContext(id) ==
    /\ ret' = Ret("history", id, TRUE, get_context(conversation_context, id))
    /\ UNCHANGED <<model_text, question, conv_id, tr, v_in, v_out, data, requested,
                   pandas2, chart, conversation_context, api_context, log>>
    /\ UNCHANGED <<executor, service>>

ClearContext(id) ==
    /\ Len(log) < MaxOps
    /\ conversation_context' = clear_context(conversation_context, id)
    /\ log' = Append(log, [op |-> "clear", id |-> id, q |-> ""])
    /\ ret' = Ret("clear", id, TRUE, <<>>)
    /\ UNCHANGED <<model_text, question, conv_id, tr, v_in, v_out, data, requested,
                   pandas2, chart, api_context>>
    /\ UNCHANGED <<executor, service>>

\* GET /api/context/{conversation_id}: 404 when the id is not in the API's map
ApiGetContext(id) ==
    /\ ret' = IF id \in DOMAIN api_context
              THEN Ret("api_history", id, TRUE, api_context[id].queries)
              ELSE Ret("api_history", id, FALSE, <<>>)
    /\ UNCHANGED <<model_text, question, conv_id, tr, v_in, v_out, data, requested,
                   pandas2, chart, conversation_context, api_context, log>>
    /\ UNCHANGED <<executor, service>>

\* DELETE /api/context/{conversation_id}: 404 when the id is not in the API's map
ApiClearContext(id) ==
    /\ IF id \in DOMAIN api_context
       THEN /\ api_context' = Without(api_context, id)
            /\ ret' = Ret("api_clear", id, TRUE, <<>>)
       ELSE /\ api_context' = api_context
            /\ ret' = Ret("api_clear", id, FALSE, <<>>)
    /\ UNCHANGED <<model_text, question, conv_id, tr, v_in, v_out, data, requested,
                   pandas2, chart, conversation_context, log>>
    /\ UNCHANGED <<executor, service>>

InitConversation ==
    /\ conversation_context = EmptyMap
    /\ api_context = EmptyMap
    /\ log = <<>>
    /\ ret = NoRet
    /\ RestTranslate /\ RestValidate /\ RestChart /\ RestExecutor /\ RestService

NextConversation ==
    \E id \in Ids :
        \/ \E q \in Questions : UpdateContext(id, q)
        \/ GetContext(id)
        \/ ClearContext(id)
        \/ ApiGetContext(id)
        \/ ApiClearContext(id)

SpecConversation == InitConversation /\ [][NextConversation]_vars

-----------------------------------------------------------------------------
(* Properties of the conversation state.                                   *)

\* the questions recorded for id since its last clear, read off the log
RECURSIVE RecordedSince(_, _)
RecordedSince(l, id) ==
    IF l = <<>> THEN <<>>
    ELSE LET e == l[Len(l)]
             before == RecordedSince(SubSeq(l, 1, Len(l) - 1), id)
         IN  IF e.id # id THEN before
             ELSE IF e.op = "clear" THEN <<>>
             ELSE Append(before, e.q)

\* no call has recorded a question for id
NeverRecorded(l, id) == \A i \in 1..Len(l) : ~(l[i].op = "record" /\ l[i].id = id)

\* C9: the history of an id is the questions recorded for it since its last
\* clear, in the order recorded and with duplicates; an id exists exactly when
\* such a question was recorded, and calls for another id do not show in it.
C9_HistoryIsRecordedSequence ==
    /\ \A id \in Ids :
          /\ get_context(conversation_context, id) = RecordedSince(log, id)
          /\ id \in DOMAIN conversation_context <=> RecordedSince(log, id) # <<>>
    /\ ret.op = "history" => ret.value = RecordedSince(log, ret.id)

\* C9 witness: c1 holds the same question twice and then another, recorded
\* around a clear of c2, and its history was read.
C9_Witness ==
    /\ ret.op = "history" /\ ret.id = "c1"
    /\ ret.value = <<"q1", "q1", "q2">>
    /\ \E i \in 1..Len(log) : log[i].op = "clear" /\ log[i].id = "c2"

\* C10 as stated: clearing or reading an id that was never created reports no
\* error, and the read returns the empty sequence; for the agent and for the
\* API's endpoints.  (Entries of the API's map are created by process_query only.)
C10_NeverCreatedIdIsNoError ==
    (ret.op \in {"clear", "history", "api_clear", "api_history"}
        /\ NeverRecorded(log, ret.id)
        /\ ret.id \notin DOMAIN api_context) =>
        /\ ret.ok
        /\ ret.value = <<>>
        /\ ret.id \notin DOMAIN conversation_context

-----------------------------------------------------------------------------
(* QueryExecutionAgent (src/agents/query_execution_agent.py).              *)
(* connection is "none" (None), "open", "closed", or "stale": the handle   *)
(* still reports open but the link to the server is gone.                  *)

\* the engine tags; "sqlite" stands for every tag other than the two handled
DbTypes == {"postgresql", "mysql", "sqlite"}
Supported(e) == e.db_type \in {"postgresql", "mysql"}

\* the statements handed to the executor
StmtA == KwSelect \o <<" ">> \o KwFrom \o <<" ", "t", ";">>
StmtB == KwSelect \o <<" ", "x", " ">> \o KwFrom \o <<" ", "t", ";">>
Statements == {StmtA, StmtB}

Probe == [kind |-> "probe", sql |-> <<>>]
Catalog == [kind |-> "catalog", sql |-> <<>>]
Explain(sql) == [kind |-> "explain", sql |-> sql]
Statement(sql) == [kind |-> "statement", sql |-> sql]

\* connect(): only the two handled tags open a connection; a failure leaves
\* self.connection as it was and raises ConnectionError
connect(e, up) ==
    IF Supported(e)
    THEN IF up THEN [ex |-> [e EXCEPT !.connection = "open"], ok |-> TRUE]
               ELSE [ex |-> e, ok |-> FALSE]
    ELSE [ex |-> e, ok |-> TRUE]

\* the connection is not live and no new one can be opened
Dead(e, up) == Supported(e) /\ e.connection # "open" /\ ~up

\* validate_connection(): psycopg's closed is false on a stale handle, so the
\* probe fails without a reconnect and the handle is closed from then on;
\* mysql's is_connected() pings, so a stale handle is reconnected
validate_connection(e, up) ==
    IF ~Supported(e) THEN [ex |-> e, ok |-> TRUE, sent |-> <<>>]
    ELSE LET reconnect == IF e.db_type = "postgresql"
                          THEN e.connection \in {"none", "closed"}
                          ELSE e.connection # "open"
             c == IF reconnect THEN connect(e, up) ELSE [ex |-> e, ok |-> TRUE]
         IN  IF ~c.ok THEN [ex |-> e, ok |-> FALSE, sent |-> <<>>]
             ELSE IF c.ex.connection = "open"
                  THEN [ex |-> c.ex, ok |-> TRUE, sent |-> <<Probe>>]
                  ELSE [ex |-> [e EXCEPT !.connection = "closed"], ok |-> FALSE,
                        sent |-> <<>>]

Outcome(op, st, kind, sql, sent, dead) ==
    [op |-> op, st |-> st, kind |-> kind, sql |-> sql, sent |-> sent, dead |-> dead]

\* execute_query(sql); stmt_ok: the server ran the statement. Every exception,
\* the ConnectionError of line 76 included, leaves as ValueError (lines 93-95);
\* with another engine tag no branch runs and None is returned
execute_query(e, up, sql, stmt_ok) ==
    LET v == validate_connection(e, up)
        d == Dead(e, up)
    IN  IF ~v.ok
        THEN [ex |-> v.ex, out |-> Outcome("execute_query", "raised", "ValueError",
                                            sql, v.sent, d)]
        ELSE IF ~Supported(e)
             THEN [ex |-> v.ex, out |-> Outcome("execute_query", "none", "", sql, v.sent, d)]
             ELSE [ex |-> v.ex,
                   out |-> Outcome("execute_query", IF stmt_ok THEN "ok" ELSE "raised",
                                   IF stmt_ok THEN "" ELSE "ValueError", sql,
                                   v.sent \o <<Statement(sql)>>, d)]

\* execute_query_with_analysis(sql): the plan-explain, then the statement
execute_query_with_analysis(e, up, sql, stmt_ok) ==
    LET v == validate_connection(e, up)
        d == Dead(e, up)
        op == "execute_query_with_analysis"
    IN  IF ~v.ok \/ ~Supported(e)
        THEN [ex |-> v.ex, out |-> Outcome(op, "raised", "ValueError", sql, v.sent, d)]
        ELSE IF ~stmt_ok
             THEN [ex |-> v.ex, out |-> Outcome(op, "raised", "ValueError", sql,
                                                 v.sent \o <<Explain(sql)>>, d)]
             ELSE [ex |-> v.ex, out |-> Outcome(op, "ok", "", sql,
                                   v.sent \o <<Explain(sql), Statement(sql)>>, d)]

\* get_schema_description(): the catalog query
get_schema_description(e, up) ==
    LET v == validate_connection(e, up)
        d == Dead(e, up)
        op == "get_schema_description"
    IN  IF ~v.ok \/ ~Supported(e)
        THEN [ex |-> v.ex, out |-> Outcome(op, "raised", "ValueError", <<>>, v.sent, d)]
        ELSE [ex |-> v.ex, out |-> Outcome(op, "ok", "", <<>>, v.sent \o <<Catalog>>, d)]

\* QueryExecutionAgent(db_config, db_type=t): __init__ connects
NewAgent(t) ==
    LET e == [db_type |-> t, connection |-> "none", built |-> TRUE]
        c == connect(e, db_up)
    IN  /\ IF c.ok
           THEN /\ ex' = c.ex
                /\ ex_out' = Outcome("__init__", "ok", "", <<>>, <<>>, FALSE)
           ELSE /\ ex' = NoAgent
                /\ ex_out' = Outcome("__init__", "raised", "ConnectionError", <<>>, <<>>,
                                     TRUE)
        /\ UNCHANGED <<db_up, service>>
        /\ UNCHANGED <<model_text, question, conv_id, tr, v_in, v_out, data, requested,
                       pandas2, chart, conversation_context, api_context, log, ret>>

\* a call validate_connection()
ValidateConnection ==
    LET v == validate_connection(ex, db_up)
    IN  /\ ex.built
        /\ ex' = v.ex
        /\ ex_out' = Outcome("validate_connection", IF v.ok THEN "ok" ELSE "false", "",
                             <<>>, v.sent, Dead(ex, db_up))
        /\ UNCHANGED <<db_up, service>>
        /\ UNCHANGED <<model_text, question, conv_id, tr, v_in, v_out, data, requested,
                       pandas2, chart, conversation_context, api_context, log, ret>>

\* a call execute_query(sql)
ExecuteQuery(sql, stmt_ok) ==
    LET r == execute_query(ex, db_up, sql, stmt_ok)
    IN  /\ ex.built
        /\ ex' = r.ex
        /\ ex_out' = r.out
        /\ UNCHANGED <<db_up, service>>
        /\ UNCHANGED <<model_text, question, conv_id, tr, v_in, v_out, data, requested,
                       pandas2, chart, conversation_context, api_context, log, ret>>

\* a call execute_query_with_analysis(sql)
ExecuteQueryWithAnalysis(sql, stmt_ok) ==
    LET r == execute_query_with_analysis(ex, db_up, sql, stmt_ok)
    IN  /\ ex.built
        /\ ex' = r.ex
        /\ ex_out' = r.out
        /\ UNCHANGED <<db_up, service>>
        /\ UNCHANGED <<model_text, question, conv_id, tr, v_in, v_out, data, requested,
                       pandas2, chart, conversation_context, api_context, log, ret>>

\* a call get_schema_description()
GetSchemaDescription ==
    LET r == get_schema_description(ex, db_up)
    IN  /\ ex.built
        /\ ex' = r.ex
        /\ ex_out' = r.out
        /\ UNCHANGED <<db_up, service>>
        /\ UNCHANGED <<model_text, question, conv_id, tr, v_in, v_out, data, requested,
                       pandas2, chart, conversation_context, api_context, log, ret>>

\* a call close_connection(): closes a handle that reports open
CloseConnection ==
    /\ ex.built
    /\ ex' = IF \/ ex.db_type = "postgresql" /\ ex.connection \in {"open", "stale"}
                \/ ex.db_type = "mysql" /\ ex.connection = "open"
             THEN [ex EXCEPT !.connection = "closed"]
             ELSE ex
    /\ ex_out' = Outcome("close_connection", "ok", "", <<>>, <<>>, Dead(ex, db_up))
    /\ UNCHANGED <<db_up, service>>
    /\ UNCHANGED <<model_text, question, conv_id, tr, v_in, v_out, data, requested,
                   pandas2, chart, conversation_context, api_context, log, ret>>

\* the environment: the server goes away (an open link with it) or comes back
ServerDown ==
    /\ db_up
    /\ db_up' = FALSE
    /\ ex' = IF ex.connection = "open" THEN [ex EXCEPT !.connection = "stale"] ELSE ex
    /\ UNCHANGED <<ex_out, service>>
    /\ UNCHANGED <<model_text, question, conv_id, tr, v_in, v_out, data, requested,
                   pandas2, chart, conversation_context, api_context, log, ret>>

ServerUp ==
    /\ ~db_up
    /\ db_up' = TRUE
    /\ UNCHANGED <<ex, ex_out, service>>
    /\ UNCHANGED <<model_text, question, conv_id, tr, v_in, v_out, data, requested,
                   pandas2, chart, conversation_context, api_context, log, ret>>

InitExecutor ==
    /\ ex = NoAgent
    /\ db_up \in BOOLEAN
    /\ ex_out = NoOutcome
    /\ conversation_context = EmptyMap
    /\ RestTranslate /\ RestValidate /\ RestChart /\ RestConversation /\ RestService

NextExecutor ==
    \/ \E t \in DbTypes : NewAgent(t)
    \/ ValidateConnection
    \/ \E sql \in Statements, stmt_ok \in BOOLEAN : ExecuteQuery(sql, stmt_ok)
    \/ \E sql \in Statements, stmt_ok \in BOOLEAN : ExecuteQueryWithAnalysis(sql, stmt_ok)
    \/ GetSchemaDescription
    \/ CloseConnection
    \/ ServerDown
    \/ ServerUp

SpecExecutor == InitExecutor /\ [][NextExecutor]_vars

ExecutionCalls == {"execute_query", "execute_query_with_analysis", "get_schema_description"}

\* C11: every execution call first checks that the connection is live; when it
\* is dead and cannot be re-established, the call fails with a ConnectionError
\* and nothing but the liveness check reaches the database.
C11_DeadConnectionIsConnectionError ==
    (ex_out.op \in ExecutionCalls /\ ex_out.dead) =>
        /\ ex_out.st = "raised"
        /\ ex_out.kind = "ConnectionError"
        /\ ex_out.sent = <<>>

\* C22: whatever the engine tag, a constructed executor has had a connection
\* established (construction fails with a ConnectionError otherwise), and
\* every call of execute_query returns rows or raises: it never returns
\* nothing without an error.
C22_ConnectedOrFailedAndNeverNone ==
    /\ ex.built => ex.connection # "none"
    /\ (ex_out.op = "__init__" /\ ex_out.st = "raised") => ex_out.kind = "ConnectionError"
    /\ ex_out.op = "execute_query" => ex_out.st \in {"ok", "raised"}

-----------------------------------------------------------------------------
(* The request handlers of src/api/main.py: POST /api/connection,          *)
(* POST /api/query and DELETE /api/context/{id}. The handlers are plain    *)
(* functions, which the host runs on worker threads; process_query is      *)
(* modelled statement by statement, and a request's pc is the line it is   *)
(* about to run.                                                           *)

\* at most MaxRequests question requests are served in a behaviour
MaxRequests == 2

Workers == {"w1", "w2"}

\* contents of the completion endpoint's response: a fenced statement, a bare
\* statement, a text with no statement in it
TextA == FenceSql \o <<"\n">> \o StmtA \o <<"\n">> \o Fence
TextB == StmtB
TextBad == KwFrom \o <<" ", "t">>
FlowTexts == {TextA, TextB, TextBad}
\* lines 74-95 on each of these texts
Extracted == [text \in FlowTexts |-> ExtractSql(text)]

\* the variables outside the handlers
outside == <<model_text, question, conv_id, tr, v_in, v_out, data, requested, pandas2,
             chart, log, executor>>

Ev(name, sql) == [ev |-> name, sql |-> sql]

\* format_results(data) for the statement sql generated for the question q
ResultOf(q, sql) == [q |-> q, sql |-> sql]

NoRequest ==
    [pc |-> "idle", id |-> "", q |-> "", analysis |-> FALSE, sql |-> <<>>,
     results |-> <<>>, trace |-> <<>>, status |-> 0, exc |-> "",
     before |-> [ctx |-> EmptyMap, api |-> EmptyMap, history |-> <<>>]]

\* no question request is being served
Quiet == \A w \in DOMAIN reqs : reqs[w].pc = "idle"

\* lines 140-143: whatever is raised inside the try block, an HTTPException
\* included, is answered with status 500
Caught(r, e) == [r EXCEPT !.pc = "done", !.status = 500, !.exc = e]

\* the request goes on to the given line
Goto(r, line, evs) == [r EXCEPT !.pc = line, !.trace = @ \o evs]

\* POST /api/connection; built: QueryExecutionAgent(...) returned. The result
\* of validate_connection() on line 90 is not looked at; line 93 makes a new
\* BaseAgent, whose conversation_context starts empty
Connect(built) ==
    /\ serial => Quiet
    /\ faults \/ built
    /\ IF built
       THEN /\ agent_up' = TRUE
            /\ conversation_context' = EmptyMap
       ELSE /\ UNCHANGED <<agent_up, conversation_context>>
    /\ UNCHANGED <<api_context, ret, query_history, reqs, received, serial, faults,
                   outside>>

\* POST /api/query arrives: the dependency of lines 31-36 answers 500 when no
\* connection was validated yet
StartQuery(w, id, q, analysis) ==
    /\ reqs[w].pc = "idle"
    /\ serial => Quiet
    /\ received < MaxRequests
    /\ received' = received + 1
    /\ LET r == [NoRequest EXCEPT !.id = id, !.q = q, !.analysis = analysis,
                                  !.before = [ctx |-> conversation_context,
                                              api |-> api_context,
                                              history |-> query_history]]
       IN  reqs' = [reqs EXCEPT ![w] =
                       IF agent_up THEN Goto(r, "l106", <<>>)
                       ELSE [r EXCEPT !.pc = "done", !.status = 500,
                                      !.exc = "Database connection not initialized."]]
    /\ UNCHANGED <<conversation_context, api_context, ret, agent_up, query_history,
                   serial, faults, outside>>

\* line 106: query_execution_agent.validate_connection()
CheckConnection(w, ok) ==
    /\ reqs[w].pc = "l106"
    /\ faults \/ ok
    /\ reqs' = [reqs EXCEPT ![w] =
                   IF ok THEN Goto(@, "l110", <<Ev("connection_checked", <<>>)>>)
                   ELSE Caught(@, "Database connection expired.")]
    /\ UNCHANGED <<conversation_context, api_context, ret, agent_up, query_history,
                   received, serial, faults, outside>>

\* lines 110 and 130: sql = base_agent.process_user_query(query, conversation_id)
Translate(w, schema_ok, status, text) ==
    /\ reqs[w].pc \in {"l110", "l130"}
    /\ faults \/ (schema_ok /\ status = HttpOk /\ Extracted[text].st = "ok")
    /\ LET r == process_user_query(conversation_context, reqs[w].q, reqs[w].id,
                                   schema_ok, status, Extracted[text])
           evs == (IF schema_ok
                   THEN <<Ev("schema_read", <<>>), Ev("question_recorded", <<>>),
                          Ev("completion_requested", <<>>)>>
                   ELSE <<>>)
                  \o (IF r.tr.st = "ok" THEN <<Ev("translated", r.tr.sql)>> ELSE <<>>)
       IN  /\ conversation_context' = r.ctx
           /\ reqs' = [reqs EXCEPT ![w] =
                          IF r.tr.st = "ok"
                          THEN [Goto(@, IF @.pc = "l110" THEN "l111" ELSE "l131", evs)
                                   EXCEPT !.sql = r.tr.sql]
                          ELSE Caught(Goto(@, @.pc, evs), r.tr.err)]
    /\ UNCHANGED <<api_context, ret, agent_up, query_history, received, serial, faults,
                   outside>>

\* lines 111-112: the HTTPException(400) is raised inside the try block
Gate(w) ==
    /\ reqs[w].pc = "l111"
    /\ reqs' = [reqs EXCEPT ![w] =
                   IF validate_sql(@.sql)
                   THEN Goto(@, "l115", <<Ev("accepted", @.sql)>>)
                   ELSE Caught(Goto(@, @.pc, <<Ev("rejected", @.sql)>>),
                               "Invalid SQL generated.")]
    /\ UNCHANGED <<conversation_context, api_context, ret, agent_up, query_history,
                   received, serial, faults, outside>>

\* lines 115-123 and line 131: the statement is handed to the executor; ok: the
\* executor returned rows. Line 116 asks for the plan as well, line 131 never
Execute(w, ok) ==
    /\ reqs[w].pc \in {"l115", "l131"}
    /\ faults \/ ok
    /\ reqs' = [reqs EXCEPT ![w] =
                   LET plan == @.pc = "l115" /\ @.analysis
                       evs == <<Ev("submitted", @.sql)>>
                              \o (IF ok /\ plan THEN <<Ev("explained", @.sql)>> ELSE <<>>)
                              \o (IF ok THEN <<Ev("executed", @.sql)>> ELSE <<>>)
                   IN  IF ok
                       THEN [Goto(@, IF @.pc = "l115" THEN "l126" ELSE "l134", evs)
                                EXCEPT !.results = ResultOf(reqs[w].q, reqs[w].sql)]
                       ELSE Caught(Goto(@, @.pc, evs), "Error executing query")]
    /\ UNCHANGED <<conversation_context, api_context, ret, agent_up, query_history,
                   received, serial, faults, outside>>

\* lines 126-127
CreateEntry(w) ==
    /\ reqs[w].pc = "l126"
    /\ api_context' =
          IF reqs[w].id \in DOMAIN api_context THEN api_context
          ELSE [x \in DOMAIN api_context \cup {reqs[w].id} |->
                   IF x = reqs[w].id THEN [queries |-> <<>>, results |-> <<>>]
                   ELSE api_context[x]]
    /\ reqs' = [reqs EXCEPT ![w] = Goto(@, "l130", <<>>)]
    /\ UNCHANGED <<conversation_context, ret, agent_up, query_history, received, serial,
                   faults, outside>>

\* line 134: KeyError when the entry is not in the map
AppendQuery(w) ==
    /\ reqs[w].pc = "l134"
    /\ IF reqs[w].id \in DOMAIN api_context
       THEN /\ api_context' = [api_context EXCEPT ![reqs[w].id].queries =
                                                      Append(@, reqs[w].q)]
            /\ reqs' = [reqs EXCEPT ![w] = Goto(@, "l135", <<Ev("turn_recorded", <<>>)>>)]
       ELSE /\ UNCHANGED api_context
            /\ reqs' = [reqs EXCEPT ![w] = Caught(@, "KeyError")]
    /\ UNCHANGED <<conversation_context, ret, agent_up, query_history, received, serial,
                   faults, outside>>

\* line 135: KeyError when the entry is not in the map
AppendResults(w) ==
    /\ reqs[w].pc = "l135"
    /\ IF reqs[w].id \in DOMAIN api_context
       THEN /\ api_context' = [api_context EXCEPT ![reqs[w].id].results =
                                                      Append(@, reqs[w].results)]
            /\ reqs' = [reqs EXCEPT ![w] = Goto(@, "l136", <<>>)]
       ELSE /\ UNCHANGED api_context
            /\ reqs' = [reqs EXCEPT ![w] = Caught(@, "KeyError")]
    /\ UNCHANGED <<conversation_context, ret, agent_up, query_history, received, serial,
                   faults, outside>>

\* lines 136-138: the global history, then the answer
AppendHistory(w) ==
    /\ reqs[w].pc = "l136"
    /\ query_history' = Append(query_history,
                               [id |-> reqs[w].id, q |-> reqs[w].q,
                                results |-> reqs[w].results])
    /\ reqs' = [reqs EXCEPT ![w] = [@ EXCEPT !.pc = "done", !.status = 200]]
    /\ UNCHANGED <<conversation_context, api_context, ret, agent_up, received, serial,
                   faults, outside>>

\* lines 138 and 143: the answer is delivered and the request's frame is gone
Respond(w) ==
    /\ reqs[w].pc = "done"
    /\ reqs' = [reqs EXCEPT ![w] = NoRequest]
    /\ UNCHANGED <<conversation_context, api_context, ret, agent_up, query_history,
                   received, serial, faults, outside>>

\* DELETE /api/context/{id}
ClearRequest(id) ==
    /\ serial => Quiet
    /\ ApiClearContext(id)

\* the steps of the request served by the worker w
Step(w) ==
    \/ \E ok \in BOOLEAN : CheckConnection(w, ok)
    \/ \E schema_ok \in BOOLEAN, status \in HttpStatuses, text \in FlowTexts :
          Translate(w, schema_ok, status, text)
    \/ Gate(w)
    \/ \E ok \in BOOLEAN : Execute(w, ok)
    \/ CreateEntry(w)
    \/ AppendQuery(w)
    \/ AppendResults(w)
    \/ AppendHistory(w)
    \/ Respond(w)

\* one worker, requests served one at a time, the database and the completion
\* endpoint may fail
InitFlow ==
    /\ agent_up = FALSE
    /\ conversation_context = EmptyMap
    /\ api_context = EmptyMap
    /\ query_history = <<>>
    /\ reqs = [w \in {"w1"} |-> NoRequest]
    /\ received = 0
    /\ serial = TRUE
    /\ faults = TRUE
    /\ log = <<>> /\ ret = NoRet
    /\ RestTranslate /\ RestValidate /\ RestChart /\ RestExecutor

NextFlow ==
    \/ \E built \in BOOLEAN : Connect(built)
    \/ \E id \in Ids, q \in Questions, analysis \in BOOLEAN : StartQuery("w1", id, q, analysis)
    \/ Step("w1")
    \/ \E id \in Ids : ClearRequest(id)

SpecFlow == InitFlow /\ [][NextFlow]_vars

\* two workers, requests served as they arrive, every upstream call succeeds
InitRace ==
    /\ agent_up = FALSE
    /\ conversation_context = EmptyMap
    /\ api_context = EmptyMap
    /\ query_history = <<>>
    /\ reqs = [w \in Workers |-> NoRequest]
    /\ received = 0
    /\ serial = FALSE
    /\ faults = FALSE
    /\ log = <<>> /\ ret = NoRet
    /\ RestTranslate /\ RestValidate /\ RestChart /\ RestExecutor

\* the requests that race are about one conversation, after the first connect
NextRace ==
    \/ ~agent_up /\ Connect(TRUE)
    \/ \E w \in Workers, q \in Questions : StartQuery(w, "c1", q, FALSE)
    \/ \E w \in Workers : Step(w)
    \/ ClearRequest("c1")

SpecRace == InitRace /\ [][NextRace]_vars

-----------------------------------------------------------------------------
(* Properties of the request handlers.                                     *)

IsPrefix(a, b) == Len(a) <= Len(b) /\ SubSeq(b, 1, Len(a)) = a

\* C12: a conversation's recorded history, the translator's list of questions
\* as well as the handler's queries, survives every step other than an explicit
\* clear of that id: requests for other ids, failed requests and (re)connecting
\* to a database never remove or reset it.
C12_HistorySurvivesUnlessCleared ==
    [][/\ \A id \in DOMAIN conversation_context :
             \/ ret' # ret /\ ret'.op = "clear" /\ ret'.id = id
             \/ /\ id \in DOMAIN conversation_context'
                /\ IsPrefix(conversation_context[id], conversation_context'[id])
       /\ \A id \in DOMAIN api_context :
             \/ ret'.op = "api_clear" /\ ret'.id = id /\ id \notin DOMAIN api_context'
             \/ /\ id \in DOMAIN api_context'
                /\ IsPrefix(api_context[id].queries, api_context'[id].queries)]_vars

\* the event e occurs in the trace t before position i
Before(t, i, e) == \E j \in 1..(i - 1) : t[j] = e
EvBefore(t, i, name) == \E j \in 1..(i - 1) : t[j].ev = name

\* C13: within a question request no statement is handed to the executor
\* unless that same statement was returned by the translator, after a schema
\* read, and then accepted by the validator; and the turn is recorded only
\* after an execution succeeded.
C13_OnlyValidatedStatementsExecuted ==
    \A w \in DOMAIN reqs :
        LET t == reqs[w].trace
        IN  \A i \in 1..Len(t) :
                /\ t[i].ev = "submitted" =>
                      \E j \in 1..(i - 1) :
                          /\ t[j] = Ev("accepted", t[i].sql)
                          /\ \E k \in 1..(j - 1) :
                                /\ t[k] = Ev("translated", t[i].sql)
                                /\ EvBefore(t, k, "schema_read")
                /\ t[i].ev = "turn_recorded" => EvBefore(t, i, "executed")

\* how often the event named name occurs in the trace t
Count(t, name) == Cardinality({i \in 1..Len(t) : t[i].ev = name})

\* C14: a question request asks the completion endpoint at most once and has
\* the database run the statement at most once, plus at most one plan-explain.
C14_OneCompletionOneExecution ==
    \A w \in DOMAIN reqs :
        /\ Count(reqs[w].trace, "completion_requested") <= 1
        /\ Count(reqs[w].trace, "executed") <= 1
        /\ Count(reqs[w].trace, "explained") <= 1

\* the handler's queries of id, none when the map has no entry
ApiQueries(api, id) == IF id \in DOMAIN api THEN api[id].queries ELSE <<>>

AllFinished == \A w \in DOMAIN reqs : reqs[w].pc \in {"idle", "done"}

\* the handler's queries and results of every conversation go in pairs
Aligned ==
    \A id \in DOMAIN api_context :
        /\ Len(api_context[id].queries) = Len(api_context[id].results)
        /\ \A i \in 1..Len(api_context[id].queries) :
              api_context[id].results[i].q = api_context[id].queries[i]

\* C20: under any interleaving of question requests and clear requests, once
\* all requests are answered the handler's queries and results of a
\* conversation have the same length and results[i] is the result of
\* queries[i]; and no request that has executed its statement fails because
\* the conversation's entry was cleared meanwhile.
C20_PairsAlignedAndNoLostRequest ==
    /\ AllFinished => Aligned
    /\ \A w \in DOMAIN reqs :
          ~(reqs[w].exc = "KeyError" /\ Count(reqs[w].trace, "executed") >= 1)

\* C21: a question request that fails, at whatever stage, leaves the handler's
\* conversation map and the global query history as they were when the
\* request arrived: no entry created, no question or result appended.
C21_FailedRequestLeavesNoTrace ==
    \A w \in DOMAIN reqs :
        reqs[w].status = 500 =>
            /\ api_context = reqs[w].before.api
            /\ query_history = reqs[w].before.history

====
